---- MODULE Spec2Model ----
(***************************************************************************)
(* A model of the gat_trait attribute macro: the parser of the attribute's *)
(* arguments (args.rs), the macro entry point (lib.rs) and the rewriting   *)
(* of a trait or impl item (expand.rs).  Syntax trees are records, token   *)
(* streams are sequences of strings, and identifiers that the macro        *)
(* converts to UpperCamelCase are sequences of one-character strings.      *)
(***************************************************************************)
EXTENDS Integers, Sequences, FiniteSets, TLC

VARIABLES crate, idx, pc, local, outs, expand_calls

vars == <<crate, idx, pc, local, outs, expand_calls>>

(***************************************************************************)
(* Bounds of the model                                                     *)
(***************************************************************************)
MaxTokens == 3
MaxItems == 2
MaxInputs == 2
MaxStmts == 2
MaxNameLen == 2

(***************************************************************************)
(* Generic helpers                                                         *)
(***************************************************************************)
SeqsUpTo(S, n) == UNION {[1..k -> S] : k \in 0..n}

RECURSIVE FlattenSeq(_)
FlattenSeq(ss) == IF ss = <<>> THEN <<>> ELSE Head(ss) \o FlattenSeq(Tail(ss))

Contains(s, e) == \E i \in 1..Len(s) : s[i] = e

(***************************************************************************)
(* args.rs: the attribute's arguments                                      *)
(***************************************************************************)
Tokens == {"?", "Send", "Sync", ","}

\* args.rs:33-36
error == "expected #[gat_trait] or #[gat_trait(?Send)]"

\* args.rs:23-31.  The result carries the unread rest of the stream, which
\* Args::parse inspects with is_empty.
try_parse_no_kw(input) ==
    IF input # <<>> /\ input[1] = "?"
    THEN [ok |-> TRUE, local |-> TRUE, rest |-> Tail(input)]
    ELSE [ok |-> TRUE, local |-> FALSE, rest |-> input]

try_parse(input) ==
    IF input # <<>> /\ input[1] = "?"
    THEN LET r1 == Tail(input) IN
         IF r1 # <<>> /\ r1[1] = "Send"
         THEN [ok |-> TRUE, local |-> TRUE, rest |-> Tail(r1)]
         ELSE [ok |-> FALSE, local |-> FALSE, rest |-> r1]
    ELSE [ok |-> TRUE, local |-> FALSE, rest |-> input]

\* args.rs:14-21
Args_parse(input) ==
    LET r == try_parse(input) IN
    IF r.ok /\ r.rest = <<>>
    THEN [ok |-> TRUE, local |-> r.local, msg |-> ""]
    ELSE [ok |-> FALSE, local |-> FALSE, msg |-> error]

(***************************************************************************)
(* heck::ToUpperCamelCase, as used by upper_camel_case_ret_future          *)
(***************************************************************************)
LowerChars == <<"a","b","c","d","e","f","g","h","i","j","k","l","m",
                "n","o","p","q","r","s","t","u","v","w","x","y","z">>
UpperChars == <<"A","B","C","D","E","F","G","H","I","J","K","L","M",
                "N","O","P","Q","R","S","T","U","V","W","X","Y","Z">>
DigitChars == {"0","1","2","3","4","5","6","7","8","9"}

IsLower(c) == Contains(LowerChars, c)
IsUpper(c) == Contains(UpperChars, c)
IsAlnum(c) == IsLower(c) \/ IsUpper(c) \/ c \in DigitChars

IndexOf(s, c) == CHOOSE i \in 1..Len(s) : s[i] = c
ToUpperChar(c) == IF IsLower(c) THEN UpperChars[IndexOf(LowerChars, c)] ELSE c
ToLowerChar(c) == IF IsUpper(c) THEN LowerChars[IndexOf(UpperChars, c)] ELSE c

\* split at every character that is not alphanumeric (empty words are kept,
\* as str::split keeps them; they produce no output)
RECURSIVE SplitWords(_, _)
SplitWords(s, cur) ==
    IF s = <<>> THEN <<cur>>
    ELSE IF IsAlnum(Head(s)) THEN SplitWords(Tail(s), Append(cur, Head(s)))
    ELSE <<cur>> \o SplitWords(Tail(s), <<>>)

\* the case boundaries inside one word: before an uppercase letter that
\* follows a lowercase one, and before the last uppercase letter of a run
\* of uppercase letters that a lowercase letter follows
RECURSIVE CaseWords(_, _, _, _)
CaseWords(word, i, init, mode) ==
    IF i > Len(word) THEN <<>>
    ELSE IF i = Len(word) THEN <<SubSeq(word, init, i)>>
    ELSE LET c == word[i]
             next == word[i + 1]
             next_mode == IF IsLower(c) THEN "lower"
                          ELSE IF IsUpper(c) THEN "upper" ELSE mode
         IN  IF next_mode = "lower" /\ IsUpper(next)
             THEN <<SubSeq(word, init, i)>> \o CaseWords(word, i + 1, i + 1, "boundary")
             ELSE IF mode = "upper" /\ IsUpper(c) /\ IsLower(next)
             THEN <<SubSeq(word, init, i - 1)>> \o CaseWords(word, i + 1, i, "boundary")
             ELSE CaseWords(word, i + 1, init, next_mode)

Capitalize(w) ==
    [i \in 1..Len(w) |-> IF i = 1 THEN ToUpperChar(w[i]) ELSE ToLowerChar(w[i])]

to_upper_camel_case(s) ==
    LET words == SplitWords(s, <<>>)
        parts == FlattenSeq([k \in 1..Len(words) |-> CaseWords(words[k], 1, 1, "boundary")])
    IN  FlattenSeq([k \in 1..Len(parts) |-> Capitalize(parts[k])])

ResultFutureSuffix == <<"_","r","e","s","u","l","t","_","f","u","t","u","r","e">>

\* a plausible slip: the suffix is appended after the case conversion
upper_camel_case_ret_future_late_suffix(func) ==
    to_upper_camel_case(func) \o ResultFutureSuffix

\* expand.rs:485-489
upper_camel_case_ret_future(func) ==
    to_upper_camel_case(func \o ResultFutureSuffix)

(***************************************************************************)
(* Syntax trees                                                            *)
(***************************************************************************)
GatLifetime == "'gat_trait"

\* a type: a path `a::b`, a path with one lifetime argument `a<'x>`, a
\* reference `&'x mut a`, `impl Bounds`, or `Self::Ident<'x>`
Ty(kind, path, ident, lifetime, mutability, bounds) ==
    [kind |-> kind, path |-> path, ident |-> ident, lifetime |-> lifetime,
     mutability |-> mutability, bounds |-> bounds]
TyPath(path) == Ty("path", path, <<>>, "", FALSE, <<>>)
TyPathLt(path, lt) == Ty("path", path, <<>>, lt, FALSE, <<>>)
TyRef(lt, mutability, path) == Ty("reference", path, <<>>, lt, mutability, <<>>)
TyImplTrait(bounds) == Ty("impl_trait", <<>>, <<>>, "", FALSE, bounds)
TySelfAssoc(ident, lt) == Ty("self_assoc", <<"Self">>, ident, lt, FALSE, <<>>)
TyUnit == Ty("tuple", <<>>, <<>>, "", FALSE, <<>>)
NoType == Ty("none", <<>>, <<>>, "", FALSE, <<>>)

Receiver(reference, lifetime, mutability) ==
    [kind |-> "receiver", reference |-> reference, lifetime |-> lifetime,
     mutability |-> mutability]
PatIdent(name, by_ref, mutability) ==
    [kind |-> "ident", name |-> name, by_ref |-> by_ref, mutability |-> mutability]
PatWild == [kind |-> "wild", name |-> "_", by_ref |-> FALSE, mutability |-> FALSE]
\* a tuple pattern, by its text; mutability: some binding in it is `mut`
PatTuple(text, mutability) ==
    [kind |-> "tuple", name |-> text, by_ref |-> FALSE, mutability |-> mutability]
Typed(pat, ty) == [kind |-> "typed", pat |-> pat, ty |-> ty]

Param(kind, name, colon, bounds) ==
    [kind |-> kind, name |-> name, colon |-> colon, bounds |-> bounds]
Pred(bounded, bounds) == [bounded |-> bounded, bounds |-> bounds]

ReturnDefault == [kind |-> "default", ty |-> NoType]
ReturnType(ty) == [kind |-> "type", ty |-> ty]

Stmt(kind, tokens) == [kind |-> kind, tokens |-> tokens]
VerbatimSemi == Stmt("verbatim", <<";">>)
NoBlock == [kind |-> "none", stmts |-> <<>>]
Block(stmts) == [kind |-> "block", stmts |-> stmts]

(***************************************************************************)
(* lifetime.rs: CollectLifetimes and AddLifetimeToImplTrait                *)
(***************************************************************************)
CollectLifetimes_new(name) == [elided |-> <<>>, explicit |-> <<>>, name |-> name]

next_lifetime(c) == c.name \o ToString(Len(c.elided))

\* one lifetime position: an omitted lifetime of a reference (optional) and
\* `'_` become the next fresh lifetime, a named lifetime is recorded
visit_lifetime_slot(c, lt, optional) ==
    IF (lt = "" /\ optional) \/ lt = "'_"
    THEN [c |-> [c EXCEPT !.elided = Append(@, next_lifetime(c))], lt |-> next_lifetime(c)]
    ELSE IF lt = "" THEN [c |-> c, lt |-> lt]
    ELSE [c |-> [c EXCEPT !.explicit = Append(@, lt)], lt |-> lt]

visit_type_mut(c, ty) ==
    IF ty.kind \in {"reference", "path", "self_assoc"}
    THEN LET r == visit_lifetime_slot(c, ty.lifetime, ty.kind = "reference")
         IN  [c |-> r.c, ty |-> [ty EXCEPT !.lifetime = r.lt]]
    ELSE [c |-> c, ty |-> ty]

visit_receiver_mut(c, arg) ==
    IF arg.reference
    THEN LET r == visit_lifetime_slot(c, arg.lifetime, TRUE)
         IN  [c |-> r.c, arg |-> [arg EXCEPT !.lifetime = r.lt]]
    ELSE [c |-> c, arg |-> arg]

AddLifetimeToImplTrait(ty) ==
    IF ty.kind = "impl_trait" THEN [ty EXCEPT !.bounds = <<GatLifetime>> \o @] ELSE ty

(***************************************************************************)
(* receiver.rs: has_self_in_sig, has_self_in_block, mut_pat, ReplaceSelf   *)
(***************************************************************************)
type_has_Self(ty) == ty.kind # "none" /\ ty.path # <<>> /\ ty.path[1] = "Self"

has_self_in_sig(sig) ==
    \/ \E i \in 1..Len(sig.inputs) :
          \/ sig.inputs[i].kind = "receiver"
          \/ sig.inputs[i].kind = "typed" /\ type_has_Self(sig.inputs[i].ty)
    \/ sig.output.kind = "type" /\ type_has_Self(sig.output.ty)

\* nested items are not searched
has_self_in_block(block) ==
    \E i \in 1..Len(block.stmts) :
        block.stmts[i].kind = "expr" /\ Contains(block.stmts[i].tokens, "Self")

mut_pat(pat) == pat.mutability

\* `self` becomes `__self`, except inside nested items
ReplaceSelf(stmts) ==
    [i \in 1..Len(stmts) |->
        IF stmts[i].kind = "expr"
        THEN [stmts[i] EXCEPT !.tokens =
                [k \in 1..Len(@) |-> IF @[k] = "self" THEN "__self" ELSE @[k]]]
        ELSE stmts[i]]

(***************************************************************************)
(* expand.rs: Context                                                      *)
(***************************************************************************)
Context_Trait(generics, super_traits) ==
    [kind |-> "trait", generics |-> generics, super_traits |-> super_traits,
     associated_type_impl_traits |-> {}]
Context_Impl(impl_generics, associated_type_impl_traits) ==
    [kind |-> "impl", generics |-> impl_generics, super_traits |-> <<>>,
     associated_type_impl_traits |-> associated_type_impl_traits]

RECURSIVE lifetimes_from(_, _)
lifetimes_from(params, used) ==
    IF params = <<>> THEN <<>>
    ELSE (IF Head(params).kind = "lifetime" /\ Contains(used, Head(params).name)
          THEN <<Head(params)>> ELSE <<>>) \o lifetimes_from(Tail(params), used)

\* expand.rs:39-54
Context_lifetimes(context, used) == lifetimes_from(context.generics, used)

(***************************************************************************)
(* expand.rs: transform_sig                                                *)
(***************************************************************************)
\* expand.rs:180-186
RECURSIVE collect_inputs(_, _)
collect_inputs(c, inputs) ==
    IF inputs = <<>> THEN [c |-> c, inputs |-> <<>>]
    ELSE LET arg == Head(inputs)
             r == IF arg.kind = "receiver"
                  THEN visit_receiver_mut(c, arg)
                  ELSE LET t == visit_type_mut(c, arg.ty)
                       IN  [c |-> t.c, arg |-> [arg EXCEPT !.ty = t.ty]]
             rest == collect_inputs(r.c, Tail(inputs))
         IN  [c |-> rest.c, inputs |-> <<r.arg>> \o rest.inputs]

\* expand.rs:188-214, the predicates pushed to the where-clause
param_predicates(params) ==
    FlattenSeq([i \in 1..Len(params) |->
        IF params[i].kind \in {"type", "lifetime"}
        THEN <<Pred(params[i].name, <<GatLifetime>> \o params[i].bounds)>>
        ELSE <<>>])

\* expand.rs:188-214, what is left of the parameters
strip_param_bounds(params) ==
    [i \in 1..Len(params) |->
        IF params[i].kind \in {"type", "lifetime"}
        THEN [params[i] EXCEPT !.colon = FALSE, !.bounds = <<>>]
        ELSE params[i]]

\* expand.rs:216-222
context_predicates(context, explicit) ==
    LET ps == Context_lifetimes(context, explicit)
    IN  [i \in 1..Len(ps) |-> Pred(ps[i].name, <<GatLifetime>>)]

\* a plausible slip: 'gat_trait is put in front of the fresh lifetimes
lifetime_params_gat_first(elided) ==
    <<Param("lifetime", GatLifetime, FALSE, <<>>)>>
    \o [i \in 1..Len(elided) |-> Param("lifetime", elided[i], FALSE, <<>>)]

\* expand.rs:231-240, the parameters pushed after the method's own
lifetime_params(elided) ==
    [i \in 1..Len(elided) |-> Param("lifetime", elided[i], FALSE, <<>>)]
    \o <<Param("lifetime", GatLifetime, FALSE, <<>>)>>

\* expand.rs:231-236
elided_predicates(elided) ==
    [i \in 1..Len(elided) |-> Pred(elided[i], <<GatLifetime>>)]

\* a plausible slip: `&mut self` is taken for a shared receiver too
self_bound_any_reference(inputs) ==
    IF inputs # <<>> /\ inputs[1].kind = "receiver" /\ inputs[1].reference
    THEN "Sync" ELSE "Send"

\* expand.rs:243-260
self_bound(inputs) ==
    IF inputs = <<>> THEN "Send"
    ELSE IF /\ inputs[1].kind = "receiver"
            /\ inputs[1].reference
            /\ ~inputs[1].mutability
    THEN "Sync"
    ELSE IF /\ inputs[1].kind = "typed"
            /\ inputs[1].pat.kind = "ident"
            /\ inputs[1].ty.kind = "reference"
            /\ inputs[1].pat.name = "self"
            /\ ~inputs[1].ty.mutability
    THEN "Sync"
    ELSE "Send"

\* expand.rs:426-441.  A supertrait is a path (leading `::` or not, and its
\* segments) or a lifetime.
has_bound(super_traits, marker) ==
    \E i \in 1..Len(super_traits) :
        /\ super_traits[i].kind = "trait"
        /\ \/ /\ ~super_traits[i].leading_colon
              /\ super_traits[i].segments = <<marker>>
           \/ /\ Len(super_traits[i].segments) = 3
              /\ super_traits[i].segments[1] \in {"std", "core"}
              /\ super_traits[i].segments[2] = "marker"
              /\ super_traits[i].segments[3] = marker

\* expand.rs:262-265
assume_bound(context, has_default, bound) ==
    IF context.kind = "trait"
    THEN ~has_default \/ has_bound(context.super_traits, bound)
    ELSE TRUE

\* expand.rs:267-272
self_predicate(assume, is_local, bound) ==
    IF assume \/ is_local
    THEN Pred("Self", <<GatLifetime>>)
    ELSE Pred("Self", <<"::core::marker::" \o bound, GatLifetime>>)

\* a plausible slip: the argument is numbered from one
positional_arg_from_one(i) == "__arg" \o ToString(i + 1)

\* expand.rs:419-424
positional_arg(i) == "__arg" \o ToString(i)

\* expand.rs:275-293; enumerate counts from 0
rewrite_inputs(inputs) ==
    [i \in 1..Len(inputs) |->
        LET arg == inputs[i] IN
        IF arg.kind = "receiver"
        THEN (IF arg.reference THEN arg ELSE [arg EXCEPT !.mutability = FALSE])
        ELSE Typed(IF arg.pat.kind = "ident"
                   THEN [arg.pat EXCEPT !.by_ref = FALSE, !.mutability = FALSE]
                   ELSE PatIdent(positional_arg(i - 1), FALSE, mut_pat(arg.pat)),
                   AddLifetimeToImplTrait(arg.ty))]

\* a plausible slip: the futures are Send whatever the modifier
future_bounds_always_send(is_local) == <<"::core::marker::Send", GatLifetime>>

\* expand.rs:295-300
future_bounds(is_local) ==
    IF is_local THEN <<GatLifetime>> ELSE <<"::core::marker::Send", GatLifetime>>

\* a plausible slip: the impl's future is declared without the lifetime
ret_future_item_impl_no_lifetime(context, ret_fut_name, ret, bounds) ==
    IF context.kind = "trait"
    THEN [kind |-> "type", ident |-> ret_fut_name, generics |-> <<GatLifetime>>,
          colon_bounds |-> <<"::core::future::Future">> \o bounds,
          output |-> ret,
          where_clause |-> <<Pred("Self", <<GatLifetime>>)>>,
          ty |-> NoType]
    ELSE [kind |-> "type", ident |-> ret_fut_name, generics |-> <<>>,
          colon_bounds |-> <<>>,
          output |-> ret,
          where_clause |-> <<>>,
          ty |-> TyImplTrait(<<"::core::future::Future">> \o bounds)]

\* expand.rs:306-315.  output is the Output of the Future bound.
ret_future_item(context, ret_fut_name, ret, bounds) ==
    IF context.kind = "trait"
    THEN [kind |-> "type", ident |-> ret_fut_name, generics |-> <<GatLifetime>>,
          colon_bounds |-> <<"::core::future::Future">> \o bounds,
          output |-> ret,
          where_clause |-> <<Pred("Self", <<GatLifetime>>)>>,
          ty |-> NoType]
    ELSE [kind |-> "type", ident |-> ret_fut_name, generics |-> <<GatLifetime>>,
          colon_bounds |-> <<>>,
          output |-> ret,
          where_clause |-> <<>>,
          ty |-> TyImplTrait(<<"::core::future::Future">> \o bounds)]

\* expand.rs:165-316: the rewritten signature and the associated type
transform_sig(context, sig, has_self, has_default, is_local) ==
    LET ret == IF sig.output.kind = "default" THEN TyUnit ELSE sig.output.ty
        col == collect_inputs(CollectLifetimes_new("'life"), sig.inputs)
        lifetimes == col.c
        bound == self_bound(col.inputs)
        where_clause ==
            sig.where_clause
            \o param_predicates(sig.generics)
            \o context_predicates(context, lifetimes.explicit)
            \o elided_predicates(lifetimes.elided)
            \o (IF has_self
                THEN <<self_predicate(assume_bound(context, has_default, bound),
                                      is_local, bound)>>
                ELSE <<>>)
        ret_fut_name == upper_camel_case_ret_future(sig.ident)
    IN  [sig |-> [asyncness |-> FALSE,
                  ident |-> sig.ident,
                  generics |-> strip_param_bounds(sig.generics)
                               \o lifetime_params(lifetimes.elided),
                  where_clause |-> where_clause,
                  inputs |-> rewrite_inputs(col.inputs),
                  output |-> ReturnType(TySelfAssoc(ret_fut_name, GatLifetime))],
         item |-> ret_future_item(context, ret_fut_name, ret, future_bounds(is_local))]

(***************************************************************************)
(* expand.rs: transform_block                                              *)
(***************************************************************************)
\* a statement of the generated async block
Let(mutability, pat, init) ==
    [kind |-> "let", mutability |-> mutability, pat |-> pat, init |-> init]
LetBlock(pat, ty, stmts) == [kind |-> "let_block", pat |-> pat, ty |-> ty, stmts |-> stmts]
InnerBlock(stmts) == [kind |-> "inner_block", stmts |-> stmts]
IfLetReturn(ty) == [kind |-> "if_let_return", ty |-> ty]
AsyncMove(body) == [kind |-> "async_move", body |-> body]

\* expand.rs:342-380; enumerate counts from 0
block_decls(inputs) ==
    [i \in 1..Len(inputs) |->
        LET arg == inputs[i] IN
        IF arg.kind = "receiver"
        THEN Let(arg.mutability, "__self", "self")
        ELSE IF arg.pat.kind = "ident"
        THEN IF arg.pat.name = "self"
             THEN Let(arg.pat.mutability, "__self", "self")
             ELSE Let(arg.pat.mutability, arg.pat.name, arg.pat.name)
        ELSE IF arg.pat.kind = "wild"
        THEN Let(FALSE, positional_arg(i - 1), positional_arg(i - 1))
        ELSE Let(FALSE, arg.pat.name, positional_arg(i - 1))]

\* expand.rs:342-385, self_span
has_self_arg(inputs) ==
    \E i \in 1..Len(inputs) :
        \/ inputs[i].kind = "receiver"
        \/ /\ inputs[i].kind = "typed"
           /\ inputs[i].pat.kind = "ident"
           /\ inputs[i].pat.name = "self"

\* expand.rs:443-476
contains_associated_type_impl_trait(context, ret) ==
    IF context.kind = "trait" THEN FALSE
    ELSE ret.kind = "self_assoc" /\ ret.ident \in context.associated_type_impl_traits

\* expand.rs:336-340
is_verbatim_semi(block) ==
    /\ block.stmts # <<>>
    /\ block.stmts[1].kind = "verbatim"
    /\ Len(block.stmts) = 1
    /\ block.stmts[1].tokens = <<";">>

\* a plausible slip: the statements are put before the rebinding lets
transform_block_stmts_first(context, sig, block) ==
    IF is_verbatim_semi(block) THEN block
    ELSE LET decls == block_decls(sig.inputs)
             stmts == IF has_self_arg(sig.inputs)
                      THEN ReplaceSelf(block.stmts) ELSE block.stmts
         IN  Block(<<AsyncMove(<<InnerBlock(stmts)>> \o decls)>>)

\* expand.rs:335-417
transform_block(context, sig, block) ==
    IF is_verbatim_semi(block) THEN block
    ELSE LET decls == block_decls(sig.inputs)
             stmts == IF has_self_arg(sig.inputs)
                      THEN ReplaceSelf(block.stmts) ELSE block.stmts
             let_ret ==
                 IF sig.output.kind = "default"
                 THEN decls \o <<LetBlock("_", TyUnit, stmts)>>
                 ELSE IF contains_associated_type_impl_trait(context, sig.output.ty)
                 THEN (IF decls = <<>> THEN stmts ELSE decls \o <<InnerBlock(stmts)>>)
                 ELSE <<IfLetReturn(sig.output.ty)>>
                      \o decls
                      \o <<LetBlock("__ret", sig.output.ty, stmts),
                           Stmt("expr", <<"__ret">>)>>
         IN  Block(<<AsyncMove(let_ret)>>)

(***************************************************************************)
(* expand.rs: expand                                                       *)
(***************************************************************************)
Method(attrs, sig, block) ==
    [kind |-> "method", attrs |-> attrs, sig |-> sig, block |-> block]

\* expand.rs:130-150 and 72
must_use == "must_use"
lint_suppress_with_body == "allow(clippy: with body)"
lint_suppress_without_body == "allow(clippy: without body)"

is_async_method(inner) == inner.kind = "method" /\ inner.sig.asyncness

\* expand.rs:67-82, one async method of a trait
expand_trait_method(context, method, is_local) ==
    LET sig == method.sig
        has_block == method.block.kind # "none"
        has_self == has_self_in_sig(sig)
                    \/ (has_block /\ has_self_in_block(method.block))
        block == IF has_block THEN transform_block(context, sig, method.block)
                 ELSE method.block
        attrs == method.attrs \o <<must_use>>
                 \o (IF has_block THEN <<lint_suppress_with_body>>
                     ELSE <<lint_suppress_without_body>>)
        has_default == has_block
        r == transform_sig(context, sig, has_self, has_default, is_local)
    IN  [inner |-> Method(attrs, r.sig, block), item |-> r.item]

\* expand.rs:112-120, one async method of an impl
expand_impl_method(context, method, is_local) ==
    LET sig == method.sig
        has_self == has_self_in_sig(sig) \/ has_self_in_block(method.block)
        block == transform_block(context, sig, method.block)
        r == transform_sig(context, sig, has_self, FALSE, is_local)
    IN  [inner |-> Method(method.attrs \o <<lint_suppress_with_body>>, r.sig, block),
         item |-> r.item]

expand_method(context, inner, is_local) ==
    IF context.kind = "trait"
    THEN expand_trait_method(context, inner, is_local)
    ELSE expand_impl_method(context, inner, is_local)

\* a plausible slip: the associated types are put in front of the items
expand_items_types_first(context, items, is_local) ==
    FlattenSeq([i \in 1..Len(items) |->
          IF is_async_method(items[i])
          THEN <<expand_method(context, items[i], is_local).item>>
          ELSE <<>>])
    \o [i \in 1..Len(items) |->
          IF is_async_method(items[i])
          THEN expand_method(context, items[i], is_local).inner
          ELSE items[i]]

\* expand.rs:65-87 and 110-125: the items rewritten in place, then the
\* associated types pushed in the order of their methods
expand_items(context, items, is_local) ==
    [i \in 1..Len(items) |->
          IF is_async_method(items[i])
          THEN expand_method(context, items[i], is_local).inner
          ELSE items[i]]
    \o FlattenSeq([i \in 1..Len(items) |->
          IF is_async_method(items[i])
          THEN <<expand_method(context, items[i], is_local).item>>
          ELSE <<>>])

\* expand.rs:97-104
impl_trait_types(items) ==
    {items[i].ident : i \in {j \in 1..Len(items) :
        items[j].kind = "type" /\ items[j].ty.kind = "impl_trait"}}

\* expand.rs:58-128
expand(input, is_local) ==
    IF input.kind = "trait"
    THEN [input EXCEPT !.items =
            expand_items(Context_Trait(input.generics, input.supertraits), @, is_local)]
    ELSE LET st == visit_type_mut(CollectLifetimes_new("'impl"), input.self_ty)
             tr == visit_type_mut(st.c, input.trait_)
             elided == tr.c.elided
             generics == [i \in 1..Len(elided) |-> Param("lifetime", elided[i], FALSE, <<>>)]
                         \o input.generics
         IN  [input EXCEPT
                !.self_ty = st.ty,
                !.trait_ = tr.ty,
                !.generics = generics,
                !.items = expand_items(Context_Impl(generics, impl_trait_types(input.items)),
                                       @, is_local)]

(***************************************************************************)
(* lib.rs: the macro, applied to the annotated items of a crate in turn    *)
(***************************************************************************)
Diagnostic(msg) == [kind |-> "error", msg |-> msg]
Expanded(item, is_local) == [kind |-> "item", item |-> item, local |-> is_local]

\* lib.rs:30, parse_macro_input!(args as Args): the arguments parse
gat_trait_args ==
    /\ pc = "args"
    /\ idx <= Len(crate)
    /\ Args_parse(crate[idx].args).ok
    /\ local' = Args_parse(crate[idx].args).local
    /\ pc' = "expand"
    /\ UNCHANGED <<crate, idx, outs, expand_calls>>

\* lib.rs:30, parse_macro_input!(args as Args): the macro returns the error
gat_trait_args_error ==
    /\ pc = "args"
    /\ idx <= Len(crate)
    /\ ~Args_parse(crate[idx].args).ok
    /\ outs' = Append(outs, Diagnostic(Args_parse(crate[idx].args).msg))
    /\ idx' = idx + 1
    /\ UNCHANGED <<crate, pc, local, expand_calls>>

\* lib.rs:31-33
gat_trait_expand ==
    /\ pc = "expand"
    /\ outs' = Append(outs, Expanded(expand(crate[idx].item, local), local))
    /\ expand_calls' = expand_calls \cup {idx}
    /\ idx' = idx + 1
    /\ pc' = "args"
    /\ UNCHANGED <<crate, local>>

Next == gat_trait_args \/ gat_trait_args_error \/ gat_trait_expand

(***************************************************************************)
(* The inputs: annotated items a crate may hold                            *)
(***************************************************************************)
Sig(asyncness, ident, generics, where_clause, inputs, output) ==
    [asyncness |-> asyncness, ident |-> ident, generics |-> generics,
     where_clause |-> where_clause, inputs |-> inputs, output |-> output]

TypeItem(ident, ty) ==
    [kind |-> "type", ident |-> ident, generics |-> <<>>, colon_bounds |-> <<>>,
     output |-> NoType, where_clause |-> <<>>, ty |-> ty]
ConstItem(ident) == [kind |-> "const", ident |-> ident]

TraitItem(generics, supertraits, items) ==
    [kind |-> "trait", generics |-> generics, supertraits |-> supertraits,
     self_ty |-> NoType, trait_ |-> NoType, items |-> items]
ImplItem(generics, self_ty, trait_, items) ==
    [kind |-> "impl", generics |-> generics, supertraits |-> <<>>,
     self_ty |-> self_ty, trait_ |-> trait_, items |-> items]

SuperTrait(leading_colon, segments) ==
    [kind |-> "trait", leading_colon |-> leading_colon, segments |-> segments]
SuperLifetime(lt) == [kind |-> "lifetime", leading_colon |-> FALSE, segments |-> <<lt>>]

Annotated(args, item) == [args |-> args, item |-> item]

NoArgs == <<>>
LocalArgs == <<"?", "Send">>
ValidArgs == {NoArgs, LocalArgs}

\* receivers and `self: T` arguments, which come first in an argument list
ReceiverSamples ==
    {Receiver(TRUE, "", FALSE), Receiver(TRUE, "", TRUE), Receiver(FALSE, "", FALSE),
     Receiver(FALSE, "", TRUE), Receiver(TRUE, "'a", FALSE)}
TypedSelfSamples ==
    {Typed(PatIdent("self", FALSE, FALSE), TyRef("", FALSE, <<"Self">>)),
     Typed(PatIdent("self", FALSE, FALSE), TyRef("'a", TRUE, <<"Self">>)),
     Typed(PatIdent("self", FALSE, TRUE), TyPath(<<"Self">>))}
TypedSamples ==
    {Typed(PatIdent("x", FALSE, FALSE), TyPath(<<"T">>)),
     Typed(PatIdent("y", FALSE, TRUE), TyRef("", FALSE, <<"T">>)),
     Typed(PatIdent("z", TRUE, FALSE), TyRef("'a", TRUE, <<"T">>)),
     Typed(PatWild, TyRef("'_", FALSE, <<"T">>)),
     Typed(PatTuple("(a, b)", FALSE), TyPathLt(<<"Pair">>, "'_")),
     Typed(PatTuple("(mut c, d)", TRUE), TyPathLt(<<"Pair">>, "'b")),
     Typed(PatIdent("w", FALSE, FALSE), TyImplTrait(<<"Clone">>)),
     Typed(PatIdent("o", FALSE, FALSE), TyPath(<<"Self">>))}
PatSamples ==
    {Typed(PatIdent("x", FALSE, TRUE), TyPath(<<"T">>)),
     Typed(PatWild, TyPath(<<"T">>)),
     Typed(PatTuple("(a, b)", FALSE), TyPath(<<"Pair">>))}

\* argument lists: at most one self argument, in front
InputLists(first, others, n) ==
    {l \in SeqsUpTo(first \cup others, n) :
        \A i \in 2..Len(l) : l[i] \in others}

\* the generic parameters of a method, with its where-clause
GenericsSamples ==
    {[params |-> <<>>, where_clause |-> <<>>],
     [params |-> <<Param("type", "T", FALSE, <<>>)>>, where_clause |-> <<>>],
     [params |-> <<Param("lifetime", "'b", TRUE, <<"'a">>),
                   Param("type", "T", TRUE, <<"Clone", "Send">>),
                   Param("const", "N", FALSE, <<>>)>>,
      where_clause |-> <<Pred("T", <<"Sized">>)>>],
     [params |-> <<Param("const", "N", FALSE, <<>>),
                   Param("lifetime", "'b", FALSE, <<>>)>>,
      where_clause |-> <<>>]}

ItemGenerics ==
    <<Param("lifetime", "'a", FALSE, <<>>), Param("lifetime", "'c", FALSE, <<>>),
      Param("type", "U", FALSE, <<>>)>>

Run == <<"r", "u", "n">>
GetX == <<"g", "e", "t", "_", "x">>
It == <<"I", "t">>

StmtSamples ==
    {Stmt("expr", <<"self", ".", "f">>), Stmt("expr", <<"Self", "::", "g">>)}
NestedItem == Stmt("item", <<"fn", "h", "Self", "self">>)

OutputSamples == {ReturnDefault, ReturnType(TyPath(<<"Ret">>)), ReturnType(TySelfAssoc(It, ""))}

\* the item a set of methods sits in: a trait, or an impl of it
ItemOf(kind, items) ==
    IF kind = "trait"
    THEN TraitItem(ItemGenerics, <<>>, items)
    ELSE ImplItem(ItemGenerics, TyRef("", FALSE, <<"Dog">>), TyPathLt(<<"Tr">>, "'a"), items)

\* a body for a method of an item of that kind: a trait method may have
\* none, an impl method may be the placeholder `;`
BodyOf(kind, stmts) ==
    IF stmts = <<VerbatimSemi>>
    THEN (IF kind = "trait" THEN NoBlock ELSE Block(stmts))
    ELSE Block(stmts)

\* src/gat-trait-test/src/main.rs:8-11
Animal ==
    TraitItem(<<>>, <<>>,
        <<Method(<<>>, Sig(TRUE, Run, <<>>, <<>>, <<Receiver(TRUE, "", FALSE)>>,
                           ReturnDefault), NoBlock)>>)

\* src/gat-trait-test/src/main.rs:15-20
Dog ==
    ImplItem(<<>>, TyPath(<<"Dog">>), TyPath(<<"Animal">>),
        <<Method(<<>>, Sig(TRUE, Run, <<>>, <<>>, <<Receiver(TRUE, "", FALSE)>>,
                           ReturnDefault),
                 Block(<<Stmt("expr", <<"todo", "!", "()">>)>>))>>)

\* every argument stream, over the test's trait and impl
ArgsCrates ==
    \E t \in SeqsUpTo(Tokens, MaxTokens), it \in {Animal, Dog} :
        crate = <<Annotated(t, it)>>

\* item lists: async and plain methods, associated types and constants
InnerSamples ==
    {Method(<<>>, Sig(TRUE, Run, <<>>, <<>>, <<Receiver(TRUE, "", FALSE)>>, ReturnDefault),
            Block(<<>>)),
     Method(<<"inline">>, Sig(TRUE, GetX, <<>>, <<>>,
                              <<Typed(PatIdent("x", FALSE, FALSE), TyPath(<<"T">>))>>,
                              ReturnType(TyPath(<<"Ret">>))),
            Block(<<Stmt("expr", <<"x">>)>>)),
     Method(<<>>, Sig(FALSE, <<"s">>, <<>>, <<>>, <<Receiver(TRUE, "", TRUE)>>, ReturnDefault),
            Block(<<Stmt("expr", <<"self", ".", "f">>)>>)),
     TypeItem(It, TyImplTrait(<<"Iterator">>)),
     ConstItem(<<"K">>)}

ItemsCrates ==
    \E a \in ValidArgs, k \in {"trait", "impl"}, items \in SeqsUpTo(InnerSamples, MaxItems) :
        crate = <<Annotated(a, ItemOf(k, items))>>

\* method names
NameAlphabet == {"a", "B", "_", "1"}
Names ==
    {n \in SeqsUpTo(NameAlphabet, MaxNameLen) :
        n # <<>> /\ n[1] # "1" /\ n # <<"_">>}

NamesCrates ==
    \E k \in {"trait", "impl"}, n \in Names :
        crate = <<Annotated(NoArgs, ItemOf(k,
                   <<Method(<<>>, Sig(TRUE, n, <<>>, <<>>, <<>>, ReturnDefault),
                            Block(<<>>))>>))>>

\* signatures: argument lists and generic parameters
SigCrates ==
    \E l \in InputLists(ReceiverSamples \cup TypedSelfSamples, TypedSamples, MaxInputs),
       k \in {"trait", "impl"}, g \in GenericsSamples :
        crate = <<Annotated(NoArgs, ItemOf(k,
                   <<Method(<<>>, Sig(TRUE, Run, g.params, g.where_clause, l, ReturnDefault),
                            BodyOf(k, <<VerbatimSemi>>))>>))>>

\* the Self predicate: first argument, supertraits, body, modifier
SuperTraitSamples ==
    {<<>>,
     <<SuperTrait(FALSE, <<"Sync">>)>>,
     <<SuperTrait(FALSE, <<"Clone">>), SuperTrait(FALSE, <<"Send">>)>>,
     <<SuperTrait(FALSE, <<"std", "marker", "Sync">>)>>,
     <<SuperTrait(TRUE, <<"core", "marker", "Send">>)>>,
     <<SuperTrait(FALSE, <<"marker", "Sync">>), SuperTrait(FALSE, <<"alloc", "marker", "Send">>)>>,
     <<SuperLifetime("'static"), SuperTrait(FALSE, <<"core", "marker", "Sync">>),
       SuperTrait(FALSE, <<"Send">>)>>,
     <<SuperLifetime("Sync"), SuperTrait(TRUE, <<"Send">>)>>}

SelfBodies ==
    {<<VerbatimSemi>>, <<>>, <<Stmt("expr", <<"Self", "::", "g">>)>>, <<NestedItem>>}

SelfCrates ==
    \E a \in ValidArgs, k \in {"trait", "impl"}, st \in SuperTraitSamples, b \in SelfBodies,
       l \in InputLists(ReceiverSamples \cup TypedSelfSamples, TypedSamples, 1) :
        crate = <<Annotated(a,
                   IF k = "trait"
                   THEN TraitItem(<<>>, st,
                          <<Method(<<>>, Sig(TRUE, Run, <<>>, <<>>, l, ReturnDefault),
                                   BodyOf(k, b))>>)
                   ELSE ImplItem(<<>>, TyPath(<<"Dog">>), TyPath(<<"Animal">>),
                          <<Method(<<>>, Sig(TRUE, Run, <<>>, <<>>, l, ReturnDefault),
                                   BodyOf(k, b))>>))>>

\* bodies: argument patterns, statements and return types
BodySamples == SeqsUpTo(StmtSamples, MaxStmts) \cup {<<VerbatimSemi>>, <<NestedItem>>}

BodyCrates ==
    \E k \in {"trait", "impl"}, o \in OutputSamples, b \in BodySamples,
       l \in InputLists({Receiver(TRUE, "", FALSE), Receiver(FALSE, "", TRUE),
                         Typed(PatIdent("self", FALSE, TRUE), TyPath(<<"Self">>))},
                        PatSamples, MaxInputs) :
        crate = <<Annotated(NoArgs, ItemOf(k,
                   <<TypeItem(It, TyImplTrait(<<"Iterator">>)),
                     Method(<<>>, Sig(TRUE, Run, <<>>, <<>>, l, o), BodyOf(k, b))>>))>>

\* a trait and an impl of it, each annotated
PairSigs ==
    {Sig(TRUE, n, g.params, g.where_clause, l, o) :
        n \in {Run, GetX}, g \in {x \in GenericsSamples : Len(x.params) # 2},
        l \in {<<>>, <<Receiver(TRUE, "", FALSE)>>,
               <<Receiver(FALSE, "", TRUE), Typed(PatWild, TyRef("'_", FALSE, <<"T">>))>>},
        o \in {ReturnDefault, ReturnType(TyRef("'a", FALSE, <<"Ret">>))}}

\* the impl's method: the trait's signature, or one that differs from it
PairVariants(s1) ==
    {s1, [s1 EXCEPT !.ident = <<"w", "a", "l", "k">>],
     [s1 EXCEPT !.output = ReturnType(TyPath(<<"Other">>))]}

PairCrates ==
    \/ \E s1 \in PairSigs :
       \E a1 \in ValidArgs, a2 \in ValidArgs, s2 \in PairVariants(s1),
          b1 \in {NoBlock, Block(<<Stmt("expr", <<"x">>)>>)},
          b2 \in {Block(<<VerbatimSemi>>), Block(<<Stmt("expr", <<"self", ".", "f">>)>>)} :
           crate = <<Annotated(a1, TraitItem(ItemGenerics, <<>>, <<Method(<<>>, s1, b1)>>)),
                     Annotated(a2, ImplItem(ItemGenerics, TyPath(<<"Dog">>),
                                            TyPathLt(<<"Tr">>, "'a"),
                                            <<Method(<<>>, s2, b2)>>))>>
    \/ crate = <<Annotated(NoArgs, Animal), Annotated(NoArgs, Dog)>>

\* the examples of the comments on transform_sig and transform_block
\* (expand.rs:152-164 and 318-334)
DocSigInputs ==
    <<Receiver(TRUE, "", FALSE), Typed(PatIdent("x", FALSE, FALSE), TyRef("", FALSE, <<"T">>))>>
DocSigTrait ==
    TraitItem(<<>>, <<>>,
        <<Method(<<>>, Sig(TRUE, <<"f">>, <<Param("type", "T", FALSE, <<>>)>>, <<>>,
                           DocSigInputs, ReturnType(TyPath(<<"Ret">>))), NoBlock)>>)
DocBlockTrait ==
    TraitItem(<<>>, <<>>,
        <<Method(<<>>, Sig(TRUE, <<"f">>, <<Param("type", "T", FALSE, <<>>)>>, <<>>,
                           DocSigInputs \o <<Typed(PatTuple("(a, b)", FALSE), TyPath(<<"AB">>))>>,
                           ReturnType(TyPath(<<"Ret">>))),
                 Block(<<Stmt("expr", <<"self", "+", "x", "+", "a", "+", "b">>)>>))>>)
DocCrates ==
    \E a \in ValidArgs, it \in {DocSigTrait, DocBlockTrait} : crate = <<Annotated(a, it)>>

\* the crates the macro is run on
Crates ==
    \/ ArgsCrates \/ ItemsCrates \/ NamesCrates \/ SigCrates \/ SelfCrates
    \/ BodyCrates \/ PairCrates \/ DocCrates

Init ==
    /\ Crates
    /\ idx = 1
    /\ pc = "args"
    /\ local = FALSE
    /\ outs = <<>>
    /\ expand_calls = {}

Spec == Init /\ [][Next]_vars

(***************************************************************************)
(* Properties                                                              *)
(***************************************************************************)
\* the macro invocations that ended with a rewritten item
ExpandedIdx == {i \in 1..Len(outs) : outs[i].kind = "item"}
InItems(i) == crate[i].item.items
OutItems(i) == outs[i].item.items
\* the positions of the async methods of the annotated item
AsyncIdx(i) ==
    {j \in 1..Len(InItems(i)) : InItems(i)[j].kind = "method" /\ InItems(i)[j].sig.asyncness}
\* the associated type generated for the async method at position j: the
\* types follow the original items, in the order of their methods
FutureItem(i, j) ==
    OutItems(i)[Len(InItems(i)) + Cardinality({a \in AsyncIdx(i) : a <= j})]
MarkerBounds == {"Send", "Sync", "::core::marker::Send", "::core::marker::Sync"}

\* C1: the arguments are accepted exactly when they are empty (local =
\* false) or the two tokens `? Send` (local = true); every other stream
\* yields the diagnostic "expected #[gat_trait] or #[gat_trait(?Send)]",
\* no Args value, and expand is not called.
C1_ArgsGrammar ==
    /\ \A i \in 1..Len(outs) :
          LET t == crate[i].args IN
          /\ t = <<>> => outs[i].kind = "item" /\ outs[i].local = FALSE /\ i \in expand_calls
          /\ t = <<"?", "Send">> =>
                outs[i].kind = "item" /\ outs[i].local = TRUE /\ i \in expand_calls
          /\ t \notin {<<>>, <<"?", "Send">>} =>
                /\ outs[i] = [kind |-> "error",
                              msg |-> "expected #[gat_trait] or #[gat_trait(?Send)]"]
                /\ i \notin expand_calls
    /\ pc = "expand" =>
          /\ crate[idx].args \in {<<>>, <<"?", "Send">>}
          /\ local = (crate[idx].args = <<"?", "Send">>)

C1_Witness ==
    /\ Len(outs) = 1
    /\ crate[1].args = <<"?", "Send", ",">>
    /\ outs[1].kind = "error"

\* C2: expand appends exactly one associated type per async method, after
\* all the original items and in the order of the methods; the original
\* items keep their places, and nothing else is added.
C2_OneTypePerAsyncMethod ==
    \A i \in ExpandedIdx :
        LET n == Len(InItems(i)) IN
        /\ Len(OutItems(i)) = n + Cardinality(AsyncIdx(i))
        /\ \A j \in 1..n :
              /\ OutItems(i)[j].kind = InItems(i)[j].kind
              /\ j \notin AsyncIdx(i) => OutItems(i)[j] = InItems(i)[j]
              /\ j \in AsyncIdx(i) =>
                    /\ FutureItem(i, j).kind = "type"
                    /\ FutureItem(i, j).ident = OutItems(i)[j].sig.output.ty.ident
                    /\ OutItems(i)[j].sig.ident = InItems(i)[j].sig.ident

C2_Witness ==
    /\ Len(outs) = 1
    /\ outs[1].kind = "item"
    /\ Len(InItems(1)) = 2
    /\ InItems(1)[1].kind = "method" /\ InItems(1)[1].sig.asyncness
    /\ InItems(1)[1].sig.ident = <<"g", "e", "t", "_", "x">>
    /\ InItems(1)[2].kind = "method" /\ InItems(1)[2].sig.asyncness
    /\ InItems(1)[2].sig.ident = <<"r", "u", "n">>
    /\ Len(OutItems(1)) = 4
    /\ OutItems(1)[3].ident = <<"G","e","t","X","R","e","s","u","l","t","F","u","t","u","r","e">>
    /\ OutItems(1)[4].ident = <<"R","u","n","R","e","s","u","l","t","F","u","t","u","r","e">>

\* the letters and digits of a name, in lower case
RECURSIVE LettersOf(_)
LettersOf(s) ==
    IF s = <<>> THEN <<>>
    ELSE (IF IsAlnum(Head(s)) THEN <<ToLowerChar(Head(s))>> ELSE <<>>) \o LettersOf(Tail(s))

\* name is an UpperCamelCase form of `<method>_result_future`: the same
\* letters and digits, no separator, a capital in front, and the words
\* Result and Future capitalised at the end
IsResultFutureName(name, method) ==
    /\ \A k \in 1..Len(name) : IsAlnum(name[k])
    /\ LettersOf(name) = LettersOf(method) \o <<"r","e","s","u","l","t","f","u","t","u","r","e">>
    /\ ~IsLower(name[1])
    /\ Len(name) >= 12
    /\ SubSeq(name, Len(name) - 11, Len(name))
         = <<"R","e","s","u","l","t","F","u","t","u","r","e">>

MarkerCountSeq(bounds) == Cardinality({k \in 1..Len(bounds) : bounds[k] \in MarkerBounds})
RECURSIVE SumSeq(_)
SumSeq(s) == IF s = <<>> THEN 0 ELSE Head(s) + SumSeq(Tail(s))
MarkerCountSig(sig) ==
    SumSeq([k \in 1..Len(sig.generics) |-> MarkerCountSeq(sig.generics[k].bounds)])
    + SumSeq([k \in 1..Len(sig.where_clause) |-> MarkerCountSeq(sig.where_clause[k].bounds)])
FutureBoundsOf(item) ==
    IF item.ty.kind = "impl_trait" THEN item.ty.bounds ELSE item.colon_bounds

\* C4: without ?Send every generated future type is bounded by
\* ::core::marker::Send + 'gat_trait; with ?Send it is bounded by
\* 'gat_trait only and no Send or Sync bound is added anywhere, neither on
\* a future type nor on Self in a where-clause.
C4_SendOnlyWithoutModifier ==
    \A i \in ExpandedIdx :
        LET is_local == crate[i].args = <<"?", "Send">> IN
        \A j \in AsyncIdx(i) :
            LET m == OutItems(i)[j]
                fut == FutureBoundsOf(FutureItem(i, j))
            IN  /\ ~is_local =>
                      fut = <<"::core::future::Future", "::core::marker::Send", "'gat_trait">>
                /\ is_local =>
                      /\ fut = <<"::core::future::Future", "'gat_trait">>
                      /\ MarkerCountSig(m.sig) = MarkerCountSig(InItems(i)[j].sig)
                      /\ \A k \in 1..Len(m.sig.where_clause) :
                            m.sig.where_clause[k].bounded = "Self" =>
                                m.sig.where_clause[k].bounds = <<"'gat_trait">>

C4_Witness ==
    \E i \in ExpandedIdx :
        /\ crate[i].args = <<"?", "Send">>
        /\ crate[i].item.kind = "trait"
        /\ crate[i].item.supertraits = <<>>
        /\ 1 \in AsyncIdx(i)
        /\ InItems(i)[1].block.kind = "block"
        /\ InItems(i)[1].sig.inputs = <<[kind |-> "receiver", reference |-> TRUE,
                                         lifetime |-> "", mutability |-> FALSE]>>
        /\ \E k \in 1..Len(OutItems(i)[1].sig.where_clause) :
              OutItems(i)[1].sig.where_clause[k] = [bounded |-> "Self", bounds |-> <<"'gat_trait">>]

\* C5: a trait and an impl expanded with the same modifier declare, for
\* every async method with the same name and signature, associated types
\* of the same name, with the one generic lifetime 'gat_trait, the same
\* Future Output and the same bounds, and the method's rewritten return
\* type is the same on both sides.
C5_TraitAndImplAgree ==
    \A i \in ExpandedIdx : \A k \in ExpandedIdx :
        (/\ crate[i].item.kind = "trait"
         /\ crate[k].item.kind = "impl"
         /\ (crate[i].args = <<"?", "Send">>) = (crate[k].args = <<"?", "Send">>)) =>
        \A j \in AsyncIdx(i) : \A l \in AsyncIdx(k) :
            InItems(i)[j].sig = InItems(k)[l].sig =>
                LET t == FutureItem(i, j)
                    u == FutureItem(k, l)
                IN  /\ t.kind = "type" /\ u.kind = "type"
                    /\ t.ident = u.ident
                    /\ t.generics = <<"'gat_trait">>
                    /\ u.generics = <<"'gat_trait">>
                    /\ t.output = u.output
                    /\ t.colon_bounds = u.ty.bounds
                    /\ t.colon_bounds[1] = "::core::future::Future"
                    /\ OutItems(i)[j].sig.output = OutItems(k)[l].sig.output

C5_Witness ==
    /\ Len(outs) = 2
    /\ crate[1].item = Animal
    /\ crate[2].item = Dog
    /\ outs[1].kind = "item" /\ outs[2].kind = "item"
    /\ FutureItem(1, 1).ident = FutureItem(2, 1).ident
    /\ FutureItem(2, 1).ty.bounds
         = <<"::core::future::Future", "::core::marker::Send", "'gat_trait">>

\* the statements of a generated async block: the positions of its
\* rebinding lets, and of the block that holds the method's statements
AsyncBody(block) ==
    IF block.kind = "block" /\ Len(block.stmts) = 1 /\ block.stmts[1].kind = "async_move"
    THEN block.stmts[1].body
    ELSE <<>>
LetPositions(B) == {p \in 1..Len(B) : B[p].kind = "let"}
HolderPositions(B) == {p \in 1..Len(B) : B[p].kind \in {"let_block", "inner_block"}}
HeldStmts(B) ==
    IF HolderPositions(B) # {} THEN B[CHOOSE p \in HolderPositions(B) : TRUE].stmts ELSE B
NthLet(B, k) ==
    B[CHOOSE p \in LetPositions(B) : Cardinality({q \in LetPositions(B) : q <= p}) = k]

IsSelfArgument(a) ==
    \/ a.kind = "receiver"
    \/ a.kind = "typed" /\ a.pat.kind = "ident" /\ a.pat.name = "self"
\* the name the rewritten signature gives the argument at position k
\* (the macro counts the arguments from 0)
ArgumentName(a, k) ==
    IF a.kind = "receiver" THEN "self"
    ELSE IF a.pat.kind = "ident" THEN a.pat.name
    ELSE "__arg" \o ToString(k - 1)

RenamedSelf(stmts) ==
    [p \in 1..Len(stmts) |->
        IF stmts[p].kind = "expr"
        THEN [kind |-> "expr",
              tokens |-> [q \in 1..Len(stmts[p].tokens) |->
                            IF stmts[p].tokens[q] = "self" THEN "__self"
                            ELSE stmts[p].tokens[q]]]
        ELSE stmts[p]]

\* the body of the method at position j of item i is one async move block:
\* a let per argument, in argument order, and then the statements `stmts`;
\* the placeholder `;` is untouched and a missing body stays missing
BodyShape(i, j, stmts) ==
    LET in == InItems(i)[j]
        out == OutItems(i)[j]
        B == AsyncBody(out.block)
    IN  IF in.block.kind = "none" THEN out.block.kind = "none"
        ELSE IF in.block.stmts = <<[kind |-> "verbatim", tokens |-> <<";">>]>>
        THEN out.block = in.block
        ELSE /\ out.block.kind = "block"
             /\ Len(out.block.stmts) = 1
             /\ out.block.stmts[1].kind = "async_move"
             /\ Cardinality(HolderPositions(B)) <= 1
             /\ \A p \in LetPositions(B) : \A h \in HolderPositions(B) : p < h
             /\ IF HolderPositions(B) = {}
                THEN in.sig.inputs = <<>>
                ELSE /\ Cardinality(LetPositions(B)) = Len(in.sig.inputs)
                     /\ \A k \in 1..Len(in.sig.inputs) :
                           NthLet(B, k).init = ArgumentName(in.sig.inputs[k], k)
             /\ HeldStmts(B) = stmts

\* C6 as stated: every async method that had a body has a body of exactly
\* one statement, an async move block with one rebinding let per argument
\* in argument order and then the original statements in their original
\* order; the placeholder `;` is left untouched and a trait method without
\* a default body still has none.
C6_BodyKeepsOriginalStatements ==
    \A i \in ExpandedIdx : \A j \in AsyncIdx(i) :
        BodyShape(i, j, InItems(i)[j].block.stmts)

\* C6 as amended: the same, the statements being the original ones with
\* `self` renamed to `__self` (outside nested items) when the method has a
\* self argument.
C6_BodyKeepsStatementsSelfRenamed ==
    \A i \in ExpandedIdx : \A j \in AsyncIdx(i) :
        BodyShape(i, j,
            IF \E k \in 1..Len(InItems(i)[j].sig.inputs) :
                  IsSelfArgument(InItems(i)[j].sig.inputs[k])
            THEN RenamedSelf(InItems(i)[j].block.stmts)
            ELSE InItems(i)[j].block.stmts)

C6_Witness ==
    \E i \in ExpandedIdx :
        /\ crate[i].item = DocBlockTrait
        /\ Len(AsyncBody(OutItems(i)[1].block)) = 6
        /\ LetPositions(AsyncBody(OutItems(i)[1].block)) = {2, 3, 4}
        /\ AsyncBody(OutItems(i)[1].block)[5].stmts
             = <<[kind |-> "expr", tokens |-> <<"__self", "+", "x", "+", "a", "+", "b">>]>>

\* C7: for the body-less trait method `async fn f<T>(&self, x: &T) -> Ret;`
\* expanded without ?Send, the where-clause holds `Self: Sync + 'gat_trait`
\* together with 'life0, 'life1 and T bounded by 'gat_trait, as the comment
\* on transform_sig shows.
C7_DocExampleSelfSync ==
    \A i \in ExpandedIdx :
        (crate[i].item = DocSigTrait /\ crate[i].args = <<>>) =>
            LET w == OutItems(i)[1].sig.where_clause IN
            /\ Contains(w, [bounded |-> "'life0", bounds |-> <<"'gat_trait">>])
            /\ Contains(w, [bounded |-> "'life1", bounds |-> <<"'gat_trait">>])
            /\ Contains(w, [bounded |-> "T", bounds |-> <<"'gat_trait">>])
            /\ \/ Contains(w, [bounded |-> "Self", bounds |-> <<"Sync", "'gat_trait">>])
               \/ Contains(w, [bounded |-> "Self",
                               bounds |-> <<"::core::marker::Sync", "'gat_trait">>])

\* a method mentions self: a self argument or the type Self in the
\* signature, or Self in the body (a nested item's Self is its own)
MentionsSelf(method) ==
    \/ \E k \in 1..Len(method.sig.inputs) :
          \/ IsSelfArgument(method.sig.inputs[k])
          \/ method.sig.inputs[k].kind = "typed"
             /\ method.sig.inputs[k].ty.path # <<>>
             /\ method.sig.inputs[k].ty.path[1] = "Self"
    \/ method.sig.output.kind = "type" /\ method.sig.output.ty.path # <<>>
       /\ method.sig.output.ty.path[1] = "Self"
    \/ \E p \in 1..Len(method.block.stmts) :
          /\ method.block.stmts[p].kind = "expr"
          /\ \E q \in 1..Len(method.block.stmts[p].tokens) :
                method.block.stmts[p].tokens[q] = "Self"

\* the supertraits name the marker as M, std::marker::M or core::marker::M
NamesMarker(supertraits, M) ==
    \E k \in 1..Len(supertraits) :
        /\ supertraits[k].kind = "trait"
        /\ \/ supertraits[k].segments = <<M>> /\ ~supertraits[k].leading_colon
           \/ supertraits[k].segments = <<"std", "marker", M>>
           \/ supertraits[k].segments = <<"core", "marker", M>>

SharedReferenceReceiver(inputs) ==
    /\ inputs # <<>>
    /\ \/ inputs[1].kind = "receiver" /\ inputs[1].reference /\ ~inputs[1].mutability
       \/ /\ inputs[1].kind = "typed"
          /\ inputs[1].pat.kind = "ident" /\ inputs[1].pat.name = "self"
          /\ inputs[1].ty.kind = "reference" /\ ~inputs[1].ty.mutability

ElidedSlot(a) ==
    \/ a.kind = "receiver" /\ a.reference /\ a.lifetime \in {"", "'_"}
    \/ a.kind = "typed" /\ a.ty.kind = "reference" /\ a.ty.lifetime \in {"", "'_"}
    \/ a.kind = "typed" /\ a.ty.kind # "reference" /\ a.ty.lifetime = "'_"
SlotLifetime(a) == IF a.kind = "receiver" THEN a.lifetime ELSE a.ty.lifetime
HasGatPredicate(sig, name) ==
    \E p \in 1..Len(sig.where_clause) :
        /\ sig.where_clause[p].bounded = name
        /\ Contains(sig.where_clause[p].bounds, "'gat_trait")

DeclaredNames(sig) ==
    {IF sig.inputs[k].kind = "receiver" THEN "self" ELSE sig.inputs[k].pat.name :
        k \in 1..Len(sig.inputs)}

\* the rewritten signature and body of the method at position j of item i
\* agree on the names of the arguments
ArgumentsAgree(i, j) ==
    LET in == InItems(i)[j]
        out == OutItems(i)[j]
        B == AsyncBody(out.block)
    IN  /\ Len(out.sig.inputs) = Len(in.sig.inputs)
        /\ \A k \in 1..Len(in.sig.inputs) :
              /\ Cardinality(LetPositions(B)) >= k
              /\ LET a == in.sig.inputs[k]
                     o == out.sig.inputs[k]
                     d == NthLet(B, k)
                     n == "__arg" \o ToString(k - 1)
                 IN  IF a.kind = "receiver"
                     THEN o.kind = "receiver" /\ d.pat = "__self" /\ d.init = "self"
                     ELSE IF a.pat.kind = "ident" /\ a.pat.name = "self"
                     THEN /\ o.kind = "typed" /\ o.pat.kind = "ident" /\ o.pat.name = "self"
                          /\ d.pat = "__self" /\ d.init = "self"
                     ELSE IF a.pat.kind = "ident"
                     THEN /\ o.kind = "typed"
                          /\ o.pat = [kind |-> "ident", name |-> a.pat.name,
                                      by_ref |-> FALSE, mutability |-> FALSE]
                          /\ d.pat = a.pat.name /\ d.init = a.pat.name
                     ELSE /\ o.kind = "typed" /\ o.pat.kind = "ident" /\ o.pat.name = n
                          /\ d.init = n
                          /\ d.pat = IF a.pat.kind = "wild" THEN n ELSE a.pat.name
        /\ \A p \in LetPositions(B) : B[p].init \in DeclaredNames(out.sig)

====
